---- MODULE Spec2Model ----
(***************************************************************************)
(* PodcastHub backend: the authentication layer and the ownership-scoped   *)
(* content API of backend/server.py (FastAPI + MongoDB), and the separate  *)
(* registration view of backend/views.py (Django + pymongo).               *)
(*                                                                         *)
(* Two readings of the handlers are given.  In Spec every request handler  *)
(* runs to completion as one action (requests one after another).  In      *)
(* SpecConc two request slots run the handlers step by step, one step per  *)
(* awaited database or file operation, so the steps of two requests        *)
(* interleave.                                                             *)
(*                                                                         *)
(* Left out: created_at stamps, cover_image (always None), duration        *)
(* (always None), the read-only list/get endpoints that no property below  *)
(* refers to, CORS, logging and static file serving.                       *)
(***************************************************************************)
EXTENDS Integers, Sequences, FiniteSets, TLC

----------------------------------------------------------------------------
(* Bounds of the model *)

\* Largest number of records in db.users
MaxUsers == 2
\* Largest number of records in users_collection (views.py)
MaxViewUsers == 2
\* Largest number of records in db.podcasts
MaxShows == 2
\* Largest number of records in db.podcasts in SpecConc
MaxConcShows == 1
\* Largest number of records in db.episodes
MaxEpisodes == 1
\* Largest number of distinct access tokens issued
MaxTokens == 1
\* Clock instants sampled right after start: ticks 0..IssueTicks; NextAuth
\* samples logins at these instants
IssueTicks == 1
\* Clock instants sampled around the 30 minute mark: that many ticks before it
\* and that many ticks after the second that follows it
SlackTicks == 1

----------------------------------------------------------------------------
(* Time.  The wall clock is counted in ticks of 1/TicksPerSecond seconds:  *)
(* datetime.utcnow() has sub-second resolution, a JWT "exp" claim has not. *)

\* Resolution of the clock
TicksPerSecond == 4

\* server.py:31
ACCESS_TOKEN_EXPIRE_MINUTES == 30

\* timedelta(minutes=m), in ticks
timedelta_minutes(m) == m * 60 * TicksPerSecond

\* The clock values the model visits
Instants ==
    (0 .. IssueTicks)
      \cup ((timedelta_minutes(ACCESS_TOKEN_EXPIRE_MINUTES) - SlackTicks)
              .. (timedelta_minutes(ACCESS_TOKEN_EXPIRE_MINUTES)
                    + IssueTicks + TicksPerSecond + SlackTicks))

----------------------------------------------------------------------------
(* Inputs *)

Emails == {"a@x", "b@x"}
Usernames == {"ann"}
Passwords == {"pw1", "pw2"}
Roles == {"podcaster", "listener"}
\* bcrypt draws a random salt per hash
Salts == {"s1"}

\* Python's None
None == [none |-> TRUE]

\* Request slots of SpecConc
Procs == {"r1", "r2"}
Idle == [pc |-> "idle"]

----------------------------------------------------------------------------
VARIABLES
    users,             \* db.users: sequence of User documents
    users_collection,  \* views.py users_collection: sequence of documents
    podcasts,          \* db.podcasts: sequence of Podcast documents
    episodes,          \* db.episodes: sequence of Episode documents
    uploads,           \* UPLOAD_DIR: the files written, as (name, content)
    stored_by,         \* bookkeeping: for each episode id, the id of the
                       \* user whose request stored it
    issued,            \* the access tokens login has issued, each with its
                       \* instant of issue (the instant is bookkeeping)
    now,               \* wall clock, in ticks
    uuids,             \* number of uuid4() values drawn so far, by kind
    last,              \* the last request handled and its response
    procs              \* SpecConc: what each request slot is doing

vars == <<users, users_collection, podcasts, episodes, uploads, stored_by,
          issued, now, uuids, last, procs>>

\* The stores no handler of the authentication routes writes
content == <<podcasts, episodes, uploads, stored_by>>

\* The tokens signed with SECRET_KEY so far
tokens == {i.token : i \in issued}

----------------------------------------------------------------------------
(* Helper functions of server.py *)

\* pwd_context.hash: a bcrypt digest carries its salt; the plaintext is not
\* recoverable from it, "of" only records which plaintext verifies against it.
get_password_hash(password, salt) ==
    [scheme |-> "bcrypt", salt |-> salt, of |-> password]

\* pwd_context.verify
verify_password(plain_password, hashed_password) ==
    hashed_password.of = plain_password

\* str(uuid.uuid4()): a value never drawn before.  The model writes it as
\* the kind of thing it is drawn for and the number of values drawn for that
\* kind so far, which keeps all values drawn distinct.
uuid4(kind) == kind \o "-" \o ToString(uuids[kind] + 1)

\* uuids after one more value is drawn for kind
drawn(kind) == [uuids EXCEPT ![kind] = @ + 1]

\* jwt.encode of a payload with a datetime "exp": the datetime is converted
\* to whole seconds since the epoch (timegm(exp.utctimetuple())), which drops
\* the fraction of the second.
jwt_encode(to_encode) ==
    [sub |-> to_encode.sub, exp |-> to_encode.exp \div TicksPerSecond]

\* create_access_token(data, expires_delta); expires_delta is {} for None or
\* {d} for a timedelta of d ticks.  A timedelta of zero is falsy in Python.
create_access_token(data, expires_delta) ==
    LET expire ==
          IF expires_delta # {} /\ expires_delta # {0}
          THEN now + (CHOOSE d \in expires_delta : TRUE)
          ELSE now + timedelta_minutes(15)
    IN  jwt_encode([sub |-> data.sub, exp |-> expire])

\* The exception jwt.decode raises (bad signature, malformed, expired)
PyJWTError == [error |-> "PyJWTError"]

\* jwt.decode with verify_exp switched off
jwt_decode_no_exp(credentials) ==
    IF credentials \notin tokens THEN {PyJWTError} ELSE {credentials}

\* jwt.decode(credentials, SECRET_KEY): the set of its possible outcomes.
\* Only tokens signed with SECRET_KEY pass the signature check.  The "exp"
\* check depends on the PyJWT release installed: 1.x compares exp < now with
\* now in whole seconds, 2.x compares exp <= now with now a float; the two
\* agree except during the second that starts at exp.
jwt_decode(credentials) ==
    IF credentials \notin tokens THEN {PyJWTError}
    ELSE IF now < credentials.exp * TicksPerSecond THEN {credentials}
    ELSE IF now >= (credentials.exp + 1) * TicksPerSecond THEN {PyJWTError}
    ELSE {credentials, PyJWTError}

\* collection.find_one({"email": email}): a matching document or None.
\* MongoDB does not say which document when several match.
find_one_by_email(collection, email) ==
    LET hits == {i \in 1..Len(collection) : collection[i].email = email}
    IN  IF hits = {} THEN {None} ELSE {collection[i] : i \in hits}

HTTPException(status_code, detail) ==
    [exc |-> TRUE, status_code |-> status_code, detail |-> detail]

IsException(x) == "exc" \in DOMAIN x

\* get_current_user(credentials): the set of its possible outcomes, each a
\* User document or the HTTPException raised.  A token made by
\* create_access_token always carries "sub", so the "email is None" branch
\* (server.py:130) is not reached by a token that passes jwt.decode.
get_current_user(credentials) ==
    UNION { IF payload = PyJWTError
            THEN {HTTPException(401, "Invalid authentication credentials")}
            ELSE { IF user = None
                   THEN HTTPException(401, "User not found")
                   ELSE user
                   : user \in find_one_by_email(users, payload.sub) }
          : payload \in jwt_decode(credentials) }

\* UserResponse(**user): the public fields
UserResponse(user) ==
    [id |-> user.id, email |-> user.email,
     username |-> user.username, role |-> user.role]

----------------------------------------------------------------------------
(* Responses *)

\* What is kept of a handled request: the route, the HTTP status, the
\* detail (or message) text and the body returned
Handled(op, status, detail, body) ==
    [op |-> op, status |-> status, detail |-> detail, body |-> body]

\* FastAPI's answer to a raised HTTPException
Raised(op, e) == Handled(op, e.status_code, e.detail, None)

\* Depends(get_current_user): a route runs its handler with the user the
\* bearer token resolves to, or answers with the exception raised
Depends(op, credentials, handler(_)) ==
    \E current_user \in get_current_user(credentials) :
       IF IsException(current_user)
       THEN /\ last' = Raised(op, current_user)
            /\ UNCHANGED <<users, users_collection, content, issued, now,
                           uuids>>
       ELSE handler(current_user)

----------------------------------------------------------------------------
Init ==
    /\ users = <<>>
    /\ users_collection = <<>>
    /\ podcasts = <<>>
    /\ episodes = <<>>
    /\ uploads = {}
    /\ stored_by = {}
    /\ issued = {}
    /\ now = 0
    /\ uuids = [kind \in {"user", "podcast", "file", "episode"} |-> 0]
    /\ last = Handled("none", 0, "", None)
    /\ procs = [p \in Procs |-> Idle]

\* Time passes
Tick ==
    /\ \E t \in Instants : t > now /\ now' = t
    /\ UNCHANGED <<users, users_collection, content, issued, uuids, last>>

\* register without the check for an existing user
register_unchecked(user_data) ==
    \E salt \in Salts :
       LET user == [id |-> uuid4("user"),
                    email |-> user_data.email,
                    username |-> user_data.username,
                    password_hash |->
                       get_password_hash(user_data.password, salt),
                    role |-> user_data.role]
       IN  /\ uuids' = drawn("user")
           /\ users' = Append(users, user)
           /\ last' = Handled("register", 200, "", UserResponse(user))
           /\ UNCHANGED <<users_collection, content, issued, now>>

\* POST /api/auth/register
register(user_data) ==
    \E existing_user \in find_one_by_email(users, user_data.email) :
       IF existing_user # None
       THEN /\ last' = Raised("register",
                              HTTPException(400, "Email already registered"))
            /\ UNCHANGED <<users, users_collection, content, issued, now,
                           uuids>>
       ELSE \E salt \in Salts :
              LET hashed_password == get_password_hash(user_data.password, salt)
                  user == [id |-> uuid4("user"),
                           email |-> user_data.email,
                           username |-> user_data.username,
                           password_hash |-> hashed_password,
                           role |-> user_data.role]
              IN  /\ uuids' = drawn("user")
                  /\ users' = Append(users, user)
                  /\ last' = Handled("register", 200, "", UserResponse(user))
                  /\ UNCHANGED <<users_collection, content, issued, now>>

\* login that tells an unknown email from a wrong password
login_telling(user_data) ==
    \E user \in find_one_by_email(users, user_data.email) :
       /\ last' = IF user = None
                  THEN Raised("login", HTTPException(404, "User not found"))
                  ELSE Raised("login",
                         HTTPException(401, "Incorrect email or password"))
       /\ UNCHANGED <<users, users_collection, content, issued, now, uuids>>

\* POST /api/auth/login
login(user_data) ==
    \E user \in find_one_by_email(users, user_data.email) :
       IF user = None
            \/ ~verify_password(user_data.password, user.password_hash)
       THEN /\ last' = Raised("login",
                         HTTPException(401, "Incorrect email or password"))
            /\ UNCHANGED <<users, users_collection, content, issued, now,
                           uuids>>
       ELSE LET access_token_expires ==
                  timedelta_minutes(ACCESS_TOKEN_EXPIRE_MINUTES)
                access_token ==
                  create_access_token([sub |-> user.email],
                                      {access_token_expires})
                issue == [token |-> access_token, at |-> now]
            IN  /\ issued' = issued \cup {issue}
                /\ last' = Handled("login", 200, "",
                                   [access_token |-> access_token,
                                    token_type |-> "bearer",
                                    user |-> UserResponse(user)])
                /\ UNCHANGED <<users, users_collection, content, now, uuids>>

\* get_current_user_info(current_user)
get_current_user_info(current_user) ==
    /\ last' = Handled("get_current_user_info", 200, "",
                       UserResponse(current_user))
    /\ UNCHANGED <<users, users_collection, content, issued, now, uuids>>

\* GET /api/auth/me
auth_me(credentials) ==
    Depends("get_current_user_info", credentials, get_current_user_info)

----------------------------------------------------------------------------
(* views.py *)

\* A request body json.loads cannot parse
Malformed == [malformed |-> TRUE]

\* "not data.get(key)": the key is missing (None) or holds the empty string
Falsy(data, key) == key \notin DOMAIN data \/ data[key] = ""

JsonResponse(status, text) ==
    Handled("register_user", status, text, None)

\* register_user(request) of views.py
register_user(request) ==
    IF request.method # "POST"
    THEN /\ last' = JsonResponse(405,
                                 "Invalid request method")
         /\ UNCHANGED <<users, users_collection, content, issued, now, uuids>>
    ELSE IF request.body = Malformed
    THEN \* json.loads raises; the except clause answers 500
         /\ last' = JsonResponse(500, "str(e)")
         /\ UNCHANGED <<users, users_collection, content, issued, now, uuids>>
    ELSE LET data == request.body IN
         IF Falsy(data, "email") \/ Falsy(data, "password")
         THEN /\ last' = JsonResponse(400,
                                      "Email and password required")
              /\ UNCHANGED <<users, users_collection, content, issued, now,
                             uuids>>
         ELSE \E found \in find_one_by_email(users_collection, data.email) :
                IF found # None
                THEN /\ last' = JsonResponse(409,
                                             "User already exists")
                     /\ UNCHANGED <<users, users_collection, content, issued,
                                    now, uuids>>
                ELSE /\ users_collection' =
                          Append(users_collection,
                                 [email |-> data.email,
                                  password |-> data.password])
                     /\ last' = JsonResponse(201,
                                             "Registration successful")
                     /\ UNCHANGED <<users, content, issued, now, uuids>>

----------------------------------------------------------------------------
(* Podcast and episode routes of server.py *)

\* cursor.to_list(length): at most length documents
to_list(cursor, length) ==
    SubSeq(cursor, 1, IF Len(cursor) < length THEN Len(cursor) ELSE length)

\* db.podcasts.find() with no filter
find_by_anyone(creator_id) == podcasts

\* db.podcasts.find({"creator_id": creator_id})
find_by_creator(creator_id) ==
    SelectSeq(podcasts, LAMBDA podcast : podcast.creator_id = creator_id)

\* db.podcasts.find_one({"id": podcast_id}): the owner is not asked for
find_one_podcast_by_id(podcast_id, creator_id) ==
    LET hits == {i \in 1..Len(podcasts) : podcasts[i].id = podcast_id}
    IN  IF hits = {} THEN {None} ELSE {podcasts[i] : i \in hits}

\* db.podcasts.find_one({"creator_id": creator_id}): the id is not asked for
find_one_podcast_by_creator(podcast_id, creator_id) ==
    LET hits == {i \in 1..Len(podcasts) :
                    podcasts[i].creator_id = creator_id}
    IN  IF hits = {} THEN {None} ELSE {podcasts[i] : i \in hits}

\* db.podcasts.find_one({"id": podcast_id, "creator_id": creator_id})
find_one_podcast(podcast_id, creator_id) ==
    LET hits == {i \in 1..Len(podcasts) :
                    /\ podcasts[i].id = podcast_id
                    /\ podcasts[i].creator_id = creator_id}
    IN  IF hits = {} THEN {None} ELSE {podcasts[i] : i \in hits}

\* File names are sequences of characters.
\* filename.split('.')[-1]: what follows the last dot, the whole name when it
\* holds no dot
RECURSIVE last_segment(_)
last_segment(filename) ==
    IF filename = <<>> THEN <<>>
    ELSE IF filename[Len(filename)] = "." THEN <<>>
    ELSE Append(last_segment(SubSeq(filename, 1, Len(filename) - 1)),
                filename[Len(filename)])

\* str.lower(), on the characters the inputs use
lower_char(c) ==
    CASE c = "M" -> "m" [] c = "P" -> "p" [] c = "W" -> "w" [] c = "A" -> "a"
      [] c = "V" -> "v" [] c = "O" -> "o" [] c = "G" -> "g" [] c = "E" -> "e"
      [] c = "X" -> "x" [] OTHER -> c

lower(str) == [i \in 1..Len(str) |-> lower_char(str[i])]

\* ['mp3', 'wav', 'ogg'] (server.py:235)
SupportedExtensions ==
    {<<"m", "p", "3">>, <<"w", "a", "v">>, <<"o", "g", "g">>}

\* create_podcast without the role check
create_podcast_any_role(podcast_data, current_user) ==
    LET podcast == [id |-> uuid4("podcast"),
                    title |-> podcast_data.title,
                    description |-> podcast_data.description,
                    creator_id |-> current_user.id,
                    category |-> podcast_data.category]
    IN  /\ uuids' = drawn("podcast")
        /\ podcasts' = Append(podcasts, podcast)
        /\ last' = Handled("create_podcast", 200, "", podcast)
        /\ UNCHANGED <<users, users_collection, episodes, uploads,
                       stored_by, issued, now>>

\* create_podcast(podcast_data, current_user)
create_podcast(podcast_data, current_user) ==
    IF current_user.role # "podcaster"
    THEN /\ last' = Raised("create_podcast",
              HTTPException(403, "Only podcasters can create podcasts"))
         /\ UNCHANGED <<users, users_collection, content, issued, now, uuids>>
    ELSE LET podcast == [id |-> uuid4("podcast"),
                         title |-> podcast_data.title,
                         description |-> podcast_data.description,
                         creator_id |-> current_user.id,
                         category |-> podcast_data.category]
         IN  /\ uuids' = drawn("podcast")
             /\ podcasts' = Append(podcasts, podcast)
             /\ last' = Handled("create_podcast", 200, "", podcast)
             /\ UNCHANGED <<users, users_collection, episodes, uploads,
                            stored_by, issued, now>>

\* POST /api/podcasts
post_podcasts(credentials, podcast_data) ==
    Depends("create_podcast", credentials,
            LAMBDA current_user : create_podcast(podcast_data, current_user))

\* get_my_podcasts(current_user)
get_my_podcasts(current_user) ==
    /\ last' =
         IF current_user.role # "podcaster"
         THEN Raised("get_my_podcasts",
                HTTPException(403, "Only podcasters can view their podcasts"))
         ELSE Handled("get_my_podcasts", 200, "",
                      to_list(find_by_creator(current_user.id), 1000))
    /\ UNCHANGED <<users, users_collection, content, issued, now, uuids>>

\* GET /api/podcasts/my
get_podcasts_my(credentials) ==
    Depends("get_my_podcasts", credentials, get_my_podcasts)

\* create_episode(podcast_id, title, description, audio_file, current_user);
\* form holds title and description
create_episode(podcast_id, form, audio_file, current_user) ==
    LET unchanged == UNCHANGED <<users, users_collection, content, issued,
                                 now, uuids>>
    IN
    IF current_user.role # "podcaster"
    THEN last' = Raised("create_episode",
           HTTPException(403, "Only podcasters can upload episodes"))
         /\ unchanged
    ELSE \E podcast \in find_one_podcast(podcast_id, current_user.id) :
         IF podcast = None
         THEN last' = Raised("create_episode",
                HTTPException(404, "Podcast not found or not owned by user"))
              /\ unchanged
         ELSE LET file_extension == last_segment(audio_file.filename) IN
         IF lower(file_extension) \notin SupportedExtensions
         THEN last' = Raised("create_episode",
                HTTPException(400,
                              "Only MP3, WAV, and OGG files are supported"))
              /\ unchanged
         ELSE LET filename == <<uuid4("file"), ".">> \o file_extension
                  episode == [id |-> uuid4("episode"),
                              podcast_id |-> podcast_id,
                              title |-> form.title,
                              description |-> form.description,
                              audio_file |-> filename]
              IN  /\ uuids' = [uuids EXCEPT !["file"] = @ + 1,
                                                !["episode"] = @ + 1]
                  /\ uploads' = uploads \cup
                       {[name |-> filename, content |-> audio_file.content]}
                  /\ episodes' = Append(episodes, episode)
                  /\ stored_by' = stored_by \cup
                       {[episode |-> episode.id, user |-> current_user.id]}
                  /\ last' = Handled("create_episode", 200, "", episode)
                  /\ UNCHANGED <<users, users_collection, podcasts, issued,
                                 now>>

\* POST /api/podcasts/{podcast_id}/episodes
post_episodes(credentials, podcast_id, form, audio_file) ==
    Depends("create_episode", credentials,
            LAMBDA current_user :
               create_episode(podcast_id, form, audio_file, current_user))

----------------------------------------------------------------------------
(* Requests *)

\* A bearer token that SECRET_KEY did not sign
ForgedToken == [sub |-> "a@x", exp |-> 0 - 1]

UserCreate == [email : Emails, username : Usernames,
               password : {"pw1"}, role : Roles]
UserLogin == [email : Emails, password : Passwords]


\* Requests to register_user of views.py
ViewRequests ==
    {[method |-> "GET", body |-> Malformed],
     [method |-> "POST", body |-> Malformed]}
      \cup {[method |-> "POST", body |-> [email |-> e, password |-> p]] :
               e \in Emails \cup {""}, p \in {"pw1", ""}}
      \cup {[method |-> "POST", body |-> [email |-> e]] : e \in {"a@x"}}

PodcastCreate ==
    {[title |-> "Tech Talk", description |-> "about tech",
      category |-> "Technology"],
     [title |-> "", description |-> "", category |-> ""]}
EpisodeForm == [title : {"E1"}, description : {"first"}]

\* Uploaded files: track.MP3, a.wav, b.c.ogg, track.exe, mp3 (no dot),
\* notes (no dot)
Filenames ==
    {<<"t", ".", "M", "P", "3">>, <<"a", ".", "w", "a", "v">>,
     <<"b", ".", "c", ".", "o", "g", "g">>, <<"t", ".", "e", "x", "e">>,
     <<"m", "p", "3">>, <<"n", "o", "t", "e", "s">>}
UploadFiles == [filename : Filenames, content : {"bytes"}]

\* Show ids a client may name: those stored and one that is not
PodcastIds == {podcasts[i].id : i \in 1..Len(podcasts)} \cup {"no-such-id"}

Bearers == tokens \cup {ForgedToken}

----------------------------------------------------------------------------
(* The handlers step by step.  A handler gives up control at each awaited  *)
(* database or file operation (in views.py: at each blocking pymongo call, *)
(* other worker threads running meanwhile); one step is one such operation *)
(* together with the handler's own code up to the next one.  Nothing locks *)
(* a collection between the steps of a request.                            *)

\* Slot p goes on to q
goto(p, q) == procs' = [procs EXCEPT ![p] = q]

\* register, server.py:144-155: find_one, the check, User(...)
register_find_one(p, user_data) ==
    /\ procs[p] = Idle
    /\ \E existing_user \in find_one_by_email(users, user_data.email) :
         IF existing_user # None
         THEN /\ last' = Raised("register",
                           HTTPException(400, "Email already registered"))
              /\ UNCHANGED <<users, users_collection, content, issued, now,
                             uuids, procs>>
         ELSE \E salt \in Salts :
                LET hashed_password ==
                      get_password_hash(user_data.password, salt)
                    user == [id |-> uuid4("user"),
                             email |-> user_data.email,
                             username |-> user_data.username,
                             password_hash |-> hashed_password,
                             role |-> user_data.role]
                IN  /\ uuids' = drawn("user")
                    /\ goto(p, [pc |-> "register:insert_one", user |-> user])
                    /\ UNCHANGED <<users, users_collection, content, issued,
                                   now, last>>

\* insert_one on a collection with a unique index on email
register_insert_one_unique(p) ==
    /\ procs[p].pc = "register:insert_one"
    /\ IF \E n \in 1..Len(users) : users[n].email = procs[p].user.email
       THEN /\ last' = Raised("register",
                   HTTPException(400, "Email already registered"))
            /\ UNCHANGED users
       ELSE /\ users' = Append(users, procs[p].user)
            /\ last' = Handled("register", 200, "",
                               UserResponse(procs[p].user))
    /\ goto(p, Idle)
    /\ UNCHANGED <<users_collection, content, issued, now, uuids>>

\* register, server.py:157-158: insert_one, the response
register_insert_one(p) ==
    /\ procs[p].pc = "register:insert_one"
    /\ users' = Append(users, procs[p].user)
    /\ last' = Handled("register", 200, "", UserResponse(procs[p].user))
    /\ goto(p, Idle)
    /\ UNCHANGED <<users_collection, content, issued, now, uuids>>

\* register_user, views.py:8-18: the checks and find_one
register_user_find_one(p, request) ==
    /\ procs[p] = Idle
    /\ IF request.method # "POST"
       THEN /\ last' = JsonResponse(405, "Invalid request method")
            /\ UNCHANGED procs
       ELSE IF request.body = Malformed
       THEN /\ last' = JsonResponse(500, "str(e)")
            /\ UNCHANGED procs
       ELSE LET data == request.body IN
            IF Falsy(data, "email") \/ Falsy(data, "password")
            THEN /\ last' = JsonResponse(400, "Email and password required")
                 /\ UNCHANGED procs
            ELSE \E found \in find_one_by_email(users_collection, data.email) :
                   IF found # None
                   THEN /\ last' = JsonResponse(409, "User already exists")
                        /\ UNCHANGED procs
                   ELSE /\ goto(p, [pc |-> "register_user:insert_one",
                                    doc |-> [email |-> data.email,
                                             password |-> data.password]])
                        /\ UNCHANGED last
    /\ UNCHANGED <<users, users_collection, content, issued, now, uuids>>

\* register_user, views.py:20-21: insert_one, the response
register_user_insert_one(p) ==
    /\ procs[p].pc = "register_user:insert_one"
    /\ users_collection' = Append(users_collection, procs[p].doc)
    /\ last' = JsonResponse(201, "Registration successful")
    /\ goto(p, Idle)
    /\ UNCHANGED <<users, content, issued, now, uuids>>

\* create_podcast, server.py:182-191: get_current_user's find_one, the role
\* check, Podcast(...)
create_podcast_find_one(p, credentials, podcast_data) ==
    /\ procs[p] = Idle
    /\ \E current_user \in get_current_user(credentials) :
         IF IsException(current_user)
         THEN /\ last' = Raised("create_podcast", current_user)
              /\ UNCHANGED <<uuids, procs>>
         ELSE IF current_user.role # "podcaster"
         THEN /\ last' = Raised("create_podcast",
                   HTTPException(403, "Only podcasters can create podcasts"))
              /\ UNCHANGED <<uuids, procs>>
         ELSE /\ uuids' = drawn("podcast")
              /\ goto(p, [pc |-> "create_podcast:insert_one",
                          podcast |-> [id |-> uuid4("podcast"),
                                       title |-> podcast_data.title,
                                       description |-> podcast_data.description,
                                       creator_id |-> current_user.id,
                                       category |-> podcast_data.category]])
              /\ UNCHANGED last
    /\ UNCHANGED <<users, users_collection, content, issued, now>>

\* create_podcast, server.py:193-194: insert_one, the response
create_podcast_insert_one(p) ==
    /\ procs[p].pc = "create_podcast:insert_one"
    /\ podcasts' = Append(podcasts, procs[p].podcast)
    /\ last' = Handled("create_podcast", 200, "", procs[p].podcast)
    /\ goto(p, Idle)
    /\ UNCHANGED <<users, users_collection, episodes, uploads, stored_by,
                   issued, now, uuids>>

\* create_episode, server.py:223-226: get_current_user's find_one, the role
\* check
create_episode_find_user(p, credentials, podcast_id, form, audio_file) ==
    /\ procs[p] = Idle
    /\ \E current_user \in get_current_user(credentials) :
         IF IsException(current_user)
         THEN /\ last' = Raised("create_episode", current_user)
              /\ UNCHANGED procs
         ELSE IF current_user.role # "podcaster"
         THEN /\ last' = Raised("create_episode",
                   HTTPException(403, "Only podcasters can upload episodes"))
              /\ UNCHANGED procs
         ELSE /\ goto(p, [pc |-> "create_episode:find_one",
                          current_user |-> current_user,
                          podcast_id |-> podcast_id,
                          form |-> form,
                          audio_file |-> audio_file])
              /\ UNCHANGED last
    /\ UNCHANGED <<users, users_collection, content, issued, now, uuids>>

\* create_episode, server.py:229-239: find_one on the show, the extension
\* check, the storage name
create_episode_find_one(p) ==
    /\ procs[p].pc = "create_episode:find_one"
    /\ \E podcast \in find_one_podcast(procs[p].podcast_id,
                                       procs[p].current_user.id) :
         IF podcast = None
         THEN /\ last' = Raised("create_episode",
                   HTTPException(404, "Podcast not found or not owned by user"))
              /\ goto(p, Idle)
              /\ UNCHANGED uuids
         ELSE LET file_extension ==
                    last_segment(procs[p].audio_file.filename) IN
              IF lower(file_extension) \notin SupportedExtensions
              THEN /\ last' = Raised("create_episode",
                        HTTPException(400,
                             "Only MP3, WAV, and OGG files are supported"))
                   /\ goto(p, Idle)
                   /\ UNCHANGED uuids
              ELSE /\ uuids' = drawn("file")
                   /\ goto(p, [procs[p] EXCEPT
                                 !.pc = "create_episode:write"]
                              @@ [filename |->
                                    <<uuid4("file"), ".">> \o file_extension])
                   /\ UNCHANGED last
    /\ UNCHANGED <<users, users_collection, content, issued, now>>

\* create_episode, server.py:241-250: the file is written, Episode(...)
create_episode_write(p) ==
    /\ procs[p].pc = "create_episode:write"
    /\ uploads' = uploads \cup
         {[name |-> procs[p].filename,
           content |-> procs[p].audio_file.content]}
    /\ uuids' = drawn("episode")
    /\ goto(p, [pc |-> "create_episode:insert_one",
                current_user |-> procs[p].current_user,
                episode |-> [id |-> uuid4("episode"),
                             podcast_id |-> procs[p].podcast_id,
                             title |-> procs[p].form.title,
                             description |-> procs[p].form.description,
                             audio_file |-> procs[p].filename]])
    /\ UNCHANGED <<users, users_collection, podcasts, episodes, stored_by,
                   issued, now, last>>

\* create_episode, server.py:252-253: insert_one, the response
create_episode_insert_one(p) ==
    /\ procs[p].pc = "create_episode:insert_one"
    /\ episodes' = Append(episodes, procs[p].episode)
    /\ stored_by' = stored_by \cup
         {[episode |-> procs[p].episode.id,
           user |-> procs[p].current_user.id]}
    /\ last' = Handled("create_episode", 200, "", procs[p].episode)
    /\ goto(p, Idle)
    /\ UNCHANGED <<users, users_collection, podcasts, uploads, issued, now,
                   uuids>>

\* The bounds of the model, on the state a step leads to
Bounded ==
    /\ Len(users') <= MaxUsers
    /\ Len(users_collection') <= MaxViewUsers
    /\ Len(podcasts') <= MaxShows
    /\ Len(episodes') <= MaxEpisodes
    /\ Cardinality(uploads') <= MaxEpisodes

\* A handler run from its first line to its response, no other request
\* running meanwhile
Whole(handler) == handler /\ Bounded /\ UNCHANGED procs

\* The authentication routes, with the clock
NextAuth ==
    \/ Whole(Tick)
    \/ \E user_data \in UserCreate : Whole(register(user_data))
    \/ \E request \in ViewRequests : Whole(register_user(request))
    \/ \E user_data \in UserLogin :
          /\ now <= IssueTicks
          /\ Whole(login(user_data))
          /\ Cardinality(issued') <= MaxTokens
    \/ \E credentials \in Bearers : Whole(auth_me(credentials))

\* The content routes
NextContent ==
    \/ \E user_data \in UserCreate : Whole(register(user_data))
    \/ \E user_data \in UserLogin : Whole(login(user_data))
    \/ \E credentials \in Bearers, podcast_data \in PodcastCreate :
          Whole(post_podcasts(credentials, podcast_data))
    \/ \E credentials \in Bearers : Whole(get_podcasts_my(credentials))
    \/ \E credentials \in Bearers, podcast_id \in PodcastIds,
          form \in EpisodeForm, audio_file \in UploadFiles :
          Whole(post_episodes(credentials, podcast_id, form, audio_file))

\* One step of a handler in a request slot
Step(step) == step /\ Bounded /\ Len(podcasts') <= MaxConcShows

\* Registration in two request slots, the steps interleaved
NextRace ==
    \/ \E p \in Procs, user_data \in UserCreate :
          Step(register_find_one(p, user_data))
    \/ \E p \in Procs : Step(register_insert_one(p))
    \/ \E p \in Procs, request \in ViewRequests :
          Step(register_user_find_one(p, request))
    \/ \E p \in Procs : Step(register_user_insert_one(p))

\* Two users registered and logged in at instant 0, nothing else stored
InitConc ==
    /\ \E ra \in Roles, rb \in Roles :
          users = << [id |-> "user-1", email |-> "a@x", username |-> "ann",
                      password_hash |-> get_password_hash("pw1", "s1"),
                      role |-> ra],
                     [id |-> "user-2", email |-> "b@x", username |-> "ann",
                      password_hash |-> get_password_hash("pw1", "s1"),
                      role |-> rb] >>
    /\ uuids = [kind \in {"user", "podcast", "file", "episode"} |->
                   IF kind = "user" THEN 2 ELSE 0]
    /\ now = 0
    /\ issued = {[token |-> create_access_token([sub |-> e],
                     {timedelta_minutes(ACCESS_TOKEN_EXPIRE_MINUTES)}),
                  at |-> 0] : e \in Emails}
    /\ users_collection = <<>>
    /\ podcasts = <<>>
    /\ episodes = <<>>
    /\ uploads = {}
    /\ stored_by = {}
    /\ last = Handled("none", 0, "", None)
    /\ procs = [p \in Procs |-> Idle]

\* Files uploaded in NextConc: track.MP3 and track.exe
ConcUploadFiles ==
    [filename : {<<"t", ".", "M", "P", "3">>, <<"t", ".", "e", "x", "e">>},
     content : {"bytes"}]

\* Show ids asked for in NextConc: those stored, the first one drawn (its
\* show perhaps not stored yet) and one that is never drawn
ConcPodcastIds == PodcastIds \cup {"podcast-1"}

\* The content routes in two request slots, the steps interleaved
NextConc ==
    \/ \E p \in Procs, credentials \in Bearers, podcast_data \in PodcastCreate :
          Step(create_podcast_find_one(p, credentials, podcast_data))
    \/ \E p \in Procs : Step(create_podcast_insert_one(p))
    \/ \E p \in Procs, credentials \in Bearers, podcast_id \in ConcPodcastIds,
          form \in EpisodeForm, audio_file \in ConcUploadFiles :
          Step(create_episode_find_user(p, credentials, podcast_id, form,
                                        audio_file))
    \/ \E p \in Procs : Step(create_episode_find_one(p))
    \/ \E p \in Procs : Step(create_episode_write(p))
    \/ \E p \in Procs : Step(create_episode_insert_one(p))

SpecAuth == Init /\ [][NextAuth]_vars
SpecContent == Init /\ [][NextContent]_vars
SpecRace == Init /\ [][NextRace]_vars
SpecConc == InitConc /\ [][NextConc]_vars

----------------------------------------------------------------------------
(* create_access_token on its own *)

\* The expires_delta arguments: None, timedelta(0), one tick, 15 and 30
\* minutes
ExpiresDeltas ==
    {{}, {0}, {1}, {timedelta_minutes(15)},
     {timedelta_minutes(ACCESS_TOKEN_EXPIRE_MINUTES)}}

\* A call create_access_token(data, expires_delta) at the instant now
issue_token(data, expires_delta) ==
    LET encoded_jwt == create_access_token(data, expires_delta) IN
    /\ issued' = issued \cup {[token |-> encoded_jwt, at |-> now]}
    /\ last' = Handled("create_access_token", 0, "",
                       [encoded_jwt |-> encoded_jwt,
                        expires_delta |-> expires_delta])
    /\ UNCHANGED <<users, users_collection, content, now, uuids>>

\* Tokens issued with any ttl, with the clock
NextToken ==
    \/ Whole(Tick)
    \/ \E data \in [sub : Emails], expires_delta \in ExpiresDeltas :
          /\ Whole(issue_token(data, expires_delta))
          /\ Cardinality(issued') <= MaxTokens

SpecToken == Init /\ [][NextToken]_vars

----------------------------------------------------------------------------
(* search *)

\* to_list(50) (server.py:282, 290)
SearchLimit == 50

\* Most shows stored when search runs
MaxSearchShows == 51

\* Most stored shows that carry the second of the two payloads drawn
MaxOtherTitle == 2

\* Most shows in a store that create_podcast adds to while search is looked
\* at; larger stores are those of InitSearch
MaxGrown == 2

\* The "i" option of $regex, on the characters the inputs use
fold(c) ==
    CASE c = "T" -> "t" [] c = "N" -> "n" [] c = "S" -> "s"
      [] OTHER -> lower_char(c)

\* A pattern the regular expression engine compiles: of the characters the
\* inputs use, "(" with no ")" is the one that makes it fail
regex_valid(q) == \A n \in 1..Len(q) : q[n] # "("

\* The pattern matches the text as written, capitals told from small letters
regex_search_cased(q, text) ==
    \E i \in 0..(Len(text) - Len(q)) :
       \A j \in 1..Len(q) : q[j] = "." \/ q[j] = text[i + j]

\* {"$regex": q, "$options": "i"}: the pattern matches somewhere in the
\* text; "." stands for any character, every other character of the
\* inputs for itself, letters without regard to case
regex_search(q, text) ==
    \E i \in 0..(Len(text) - Len(q)) :
       \A j \in 1..Len(q) : q[j] = "." \/ fold(q[j]) = fold(text[i + j])

\* The $or filter of server.py:276-282 on one show
podcast_matches(q, podcast) ==
    \/ regex_search(q, podcast.title)
    \/ regex_search(q, podcast.description)
    \/ regex_search(q, podcast.category)

\* The $or filter of server.py:285-290 on one episode
episode_matches(q, episode) ==
    \/ regex_search(q, episode.title)
    \/ regex_search(q, episode.description)

\* search(q); a pattern that does not compile makes find raise, which the
\* handler does not catch: 500
search(q) ==
    /\ IF ~regex_valid(q)
       THEN last' = Handled("search", 500, "Internal Server Error", None)
       ELSE LET in_podcasts(podcast) == podcast_matches(q, podcast)
                in_episodes(episode) == episode_matches(q, episode)
                podcast_results ==
                    to_list(SelectSeq(podcasts, in_podcasts), SearchLimit)
                episode_results ==
                    to_list(SelectSeq(episodes, in_episodes), SearchLimit)
            IN  last' = Handled("search", 200, "",
                                [podcasts |-> podcast_results,
                                 episodes |-> episode_results])
    /\ UNCHANGED <<users, users_collection, content, issued, now, uuids>>

\* Titles as sequences of characters: "Tech", "News"
SearchTitles == {<<"T", "e", "c", "h">>, <<"N", "e", "w", "s">>}

\* The payloads of create_podcast when search is looked at
SearchPodcastCreate ==
    [title : SearchTitles, description : {<<"p", "o", "d">>},
     category : {<<"t", "e", "c", "h">>, <<"n", "e", "w", "s">>}]

\* The queries: "tech", "NE", "xyz", ".", "(" and the empty string
Queries ==
    {<<"t", "e", "c", "h">>, <<"N", "E">>, <<"x", "y", "z">>, <<".">>,
     <<"(">>, <<>>}

\* The podcaster of InitSearch
SearchPodcaster ==
    [id |-> "user-1", email |-> "a@x", username |-> "ann",
     password_hash |-> get_password_hash("pw1", "s1"), role |-> "podcaster"]

\* One podcaster has created some shows one after another, all of them
\* with one payload but for the last few
InitSearch ==
    /\ users = <<SearchPodcaster>>
    /\ \E n \in 0..MaxSearchShows, k \in 0..MaxOtherTitle,
          most \in SearchPodcastCreate, other \in SearchPodcastCreate :
          /\ k <= n
          /\ podcasts =
                [i \in 1..n |->
                   LET podcast_data == IF i <= n - k THEN most ELSE other
                   IN  [id |-> "podcast-" \o ToString(i),
                        title |-> podcast_data.title,
                        description |-> podcast_data.description,
                        creator_id |-> SearchPodcaster.id,
                        category |-> podcast_data.category]]
          /\ uuids = [kind \in {"user", "podcast", "file", "episode"} |->
                         IF kind = "user" THEN 1
                         ELSE IF kind = "podcast" THEN n ELSE 0]
    /\ users_collection = <<>>
    /\ episodes = <<>>
    /\ uploads = {}
    /\ stored_by = {}
    /\ issued = {}
    /\ now = 0
    /\ last = Handled("none", 0, "", None)
    /\ procs = [p \in Procs |-> Idle]

\* create_podcast by the podcaster, and search
NextSearch ==
    \/ \E podcast_data \in SearchPodcastCreate :
          /\ create_podcast(podcast_data, users[1])
          /\ Len(podcasts') <= MaxGrown
          /\ UNCHANGED procs
    \/ \E q \in Queries : search(q) /\ UNCHANGED procs

SpecSearch == InitSearch /\ [][NextSearch]_vars

----------------------------------------------------------------------------
(* Properties *)

Registered(collection, email) ==
    \E i \in 1..Len(collection) : collection[i].email = email

NoTwoWithOneEmail(collection) ==
    \A i, j \in 1..Len(collection) :
       collection[i].email = collection[j].email => i = j

\* register: an email not yet stored is stored, answer 200; one that is
\* stored is refused with 400 and db.users stays as it is
RegisterOnce(user_data) ==
    IF Registered(users, user_data.email)
    THEN last'.status = 400 /\ users' = users
    ELSE /\ last'.status = 200
         /\ Len(users') = Len(users) + 1
         /\ SubSeq(users', 1, Len(users)) = users
         /\ users'[Len(users')].email = user_data.email

\* register_user, for a request that names email: stored with 201 when the
\* email is not yet stored, refused with 409 and nothing changed when it is
RegisterUserOnce(email) ==
    IF Registered(users_collection, email)
    THEN last'.status = 409 /\ users_collection' = users_collection
    ELSE /\ last'.status = 201
         /\ Len(users_collection') = Len(users_collection) + 1
         /\ SubSeq(users_collection', 1, Len(users_collection))
              = users_collection
         /\ users_collection'[Len(users_collection')].email = email

\* The requests to register_user that carry one of Emails
WithEmail == {r \in ViewRequests : /\ r.method = "POST"
                                    /\ r.body # Malformed
                                    /\ ~Falsy(r.body, "email")}

\* C1 as claimed: with requests handled one after another, for every email
\* the first register with that email succeeds and stores one user, every
\* later one fails (400 in server.py, 409 in views.py) and leaves the store
\* unchanged
C1_FirstRegisterAlwaysSucceeds ==
    [][ /\ \A user_data \in UserCreate :
              register(user_data) => RegisterOnce(user_data)
        /\ \A request \in WithEmail :
              register_user(request) => RegisterUserOnce(request.body.email)
      ]_vars

\* C1: with requests handled one after another, for every email the first
\* register that passes the handler's own checks (views.py answers 400 to a
\* missing or empty email or password, whether or not the email is stored)
\* succeeds and stores one user; every later register with that email fails
\* (400 in server.py; 409 in views.py, 400 when it fails the checks) and
\* leaves the store unchanged; no store ever holds two records with one email
C1_RegisterOnce ==
    [][ /\ \A user_data \in UserCreate :
              register(user_data) => RegisterOnce(user_data)
        /\ \A request \in WithEmail :
              register_user(request) =>
                 IF Falsy(request.body, "password")
                 THEN /\ last'.status = 400
                      /\ users_collection' = users_collection
                 ELSE RegisterUserOnce(request.body.email)
        /\ NoTwoWithOneEmail(users')
        /\ NoTwoWithOneEmail(users_collection')
      ]_vars

\* C1 witness: both stores hold a first record and a later register of a
\* stored email has just been refused with 400
C1_Witness ==
    /\ Len(users) >= 1
    /\ Len(users_collection) >= 1
    /\ last.op = "register"
    /\ last.status = 400

\* The issue a token was made by, and its ttl
TTL == timedelta_minutes(ACCESS_TOKEN_EXPIRE_MINUTES)

\* C2 as claimed: a token issued by login for subject S at time t with ttl T
\* resolves, at every clock time before t+T, to the stored user whose email
\* is S, and fails with 401 at every clock time after t+T
C2_ValidUntilIssuePlusTtl ==
    [][ \A i \in issued :
           auth_me(i.token) =>
              /\ now < i.at + TTL =>
                    last'.status = 200 /\ last'.body.email = i.token.sub
              /\ now > i.at + TTL => last'.status = 401
      ]_vars

\* C2: a token issued by login for subject S at time t with ttl T carries as
\* expiry E the instant t+T cut down to a whole second.  At every clock time
\* before E it resolves to the stored user whose email is S; at every clock
\* time one second or more after E it fails with 401.
C2_ValidUntilExp ==
    [][ \A i \in issued :
           LET E == ((i.at + TTL) \div TicksPerSecond) * TicksPerSecond IN
           auth_me(i.token) =>
              /\ now < E =>
                    /\ last'.status = 200
                    /\ last'.body.email = i.token.sub
                    /\ \E n \in 1..Len(users) :
                          UserResponse(users[n]) = last'.body
              /\ now >= E + TicksPerSecond => last'.status = 401
      ]_vars

\* C2 witness: a token is resolved to its user in the last second before
\* its expiry
C2_Witness ==
    /\ last.op = "get_current_user_info"
    /\ last.status = 200
    /\ \E i \in issued :
          /\ i.token.sub = last.body.email
          /\ now < i.token.exp * TicksPerSecond
          /\ now + TicksPerSecond >= i.token.exp * TicksPerSecond

\* C3: a login with an email that is not registered and a login with a
\* registered email and a wrong password get the same response (401, the
\* same detail, no body) and no token is issued
C3_LoginFailuresAlike ==
    [][ \A user_data \in UserLogin :
           ( /\ login(user_data)
             /\ \/ ~Registered(users, user_data.email)
                \/ \E n \in 1..Len(users) :
                      /\ users[n].email = user_data.email
                      /\ users[n].password_hash.of # user_data.password )
           => /\ last' = Handled("login", 401, "Incorrect email or password",
                                 None)
              /\ issued' = issued
      ]_vars

\* C3 witness: a login has just failed while one email is registered and
\* another is not
C3_Witness ==
    /\ last.op = "login"
    /\ last.status = 401
    /\ \E e \in Emails : Registered(users, e)
    /\ \E e \in Emails : ~Registered(users, e)

\* C8 as claimed: every stored user record holds the password only as a
\* hash made by get_password_hash, never the plaintext submitted
C8_OnlyHashesStored ==
    /\ \A n \in 1..Len(users) :
          /\ users[n].password_hash.scheme = "bcrypt"
          /\ "password" \notin DOMAIN users[n]
    /\ \A n \in 1..Len(users_collection) :
          "password" \notin DOMAIN users_collection[n]

\* The stored users
Users == {users[n] : n \in 1..Len(users)}

\* The stored shows
Shows == {podcasts[n] : n \in 1..Len(podcasts)}

\* C4: create_podcast called by a user whose role is not podcaster answers
\* 403 whatever the payload and leaves db.podcasts as it is; every stored
\* show's creator_id is the id of a stored user whose role is podcaster
C4_OnlyPodcastersCreateShows ==
    [][ /\ \A current_user \in Users, podcast_data \in PodcastCreate :
              ( /\ create_podcast(podcast_data, current_user)
                /\ current_user.role # "podcaster" )
              => /\ last'.status = 403
                 /\ podcasts' = podcasts
        /\ \A show \in {podcasts'[n] : n \in 1..Len(podcasts')} :
              \E user \in {users'[n] : n \in 1..Len(users')} :
                 /\ user.id = show.creator_id
                 /\ user.role = "podcaster"
      ]_vars

\* C4 witness: a show is stored and a listener holding a token has just been
\* refused by create_podcast
C4_Witness ==
    /\ last.op = "create_podcast"
    /\ last.status = 403
    /\ podcasts # <<>>
    /\ \E user \in Users :
          user.role = "listener" /\ \E t \in tokens : t.sub = user.email

\* The show podcast_id names is not stored, or is another user's
NotOwnShow(podcast_id, user) ==
    \A show \in Shows : show.id = podcast_id => show.creator_id # user.id

\* C5: create_episode by a podcaster on a show id that is stored with another
\* creator answers 404 with the detail it gives for an id that is not stored,
\* writes no file and stores no episode; it answers 403 exactly when the
\* caller's role is not podcaster, whether or not the show exists
C5_NotOwnedIsNotFound ==
    [][ \A current_user \in Users, podcast_id \in PodcastIds,
           form \in EpisodeForm, audio_file \in UploadFiles :
           create_episode(podcast_id, form, audio_file, current_user) =>
              /\ ( current_user.role = "podcaster"
                   /\ NotOwnShow(podcast_id, current_user) )
                 => /\ last' = Handled("create_episode", 404,
                                  "Podcast not found or not owned by user",
                                  None)
                    /\ uploads' = uploads
                    /\ episodes' = episodes
              /\ last'.status = 403 <=> current_user.role # "podcaster"
              /\ last'.status = 403 =>
                    uploads' = uploads /\ episodes' = episodes
      ]_vars

\* C5 witness: two podcasters hold tokens, one owns a show, and create_episode
\* has just answered 404
C5_Witness ==
    /\ last.op = "create_episode"
    /\ last.status = 404
    /\ \E owner, other \in Users :
          /\ owner.id # other.id
          /\ other.role = "podcaster"
          /\ \E t \in tokens : t.sub = other.email
          /\ \E show \in Shows : show.creator_id = owner.id

\* C6: get_my_podcasts answers a caller whose role is not podcaster with 403
\* and a podcaster with the stored shows whose creator_id is the caller's id:
\* each of them once, and no other (fewer than 1000 being stored)
C6_MyPodcastsAreMine ==
    [][ \A current_user \in Users :
           get_my_podcasts(current_user) =>
              IF current_user.role # "podcaster"
              THEN last'.status = 403
              ELSE LET mine == {n \in 1..Len(podcasts) :
                                  podcasts[n].creator_id = current_user.id}
                   IN  /\ last'.status = 200
                       /\ Cardinality(mine) <= 1000 =>
                            /\ Len(last'.body) = Cardinality(mine)
                            /\ {last'.body[n] : n \in 1..Len(last'.body)}
                                 = {podcasts[n] : n \in mine}
      ]_vars

\* C6 witness: get_my_podcasts has just returned a show while another
\* user's show is stored too
C6_Witness ==
    /\ last.op = "get_my_podcasts"
    /\ last.status = 200
    /\ Len(last.body) >= 1
    /\ \E show \in Shows : \A n \in 1..Len(last.body) : last.body[n] # show

\* The extension of a file name: what follows its last dot; a name without
\* a dot has none
extension(filename) ==
    IF \E n \in 1..Len(filename) : filename[n] = "."
    THEN last_segment(filename)
    ELSE <<>>

\* C7 as claimed: the upload step of create_episode (a podcaster on a show of
\* his own), for every file name: when the extension, lower-cased, is not
\* one of mp3, wav, ogg the answer is 400, no file is written and no episode
\* stored; otherwise one file is written under a new name that differs from
\* the name supplied and the episode's audio_file is that name
C7_UploadByExtension ==
    [][ \A current_user \in Users, podcast_id \in PodcastIds,
           form \in EpisodeForm, audio_file \in UploadFiles :
           ( /\ create_episode(podcast_id, form, audio_file, current_user)
             /\ current_user.role = "podcaster"
             /\ ~NotOwnShow(podcast_id, current_user) )
           => IF lower(extension(audio_file.filename))
                   \notin SupportedExtensions
              THEN /\ last'.status = 400
                   /\ uploads' = uploads
                   /\ episodes' = episodes
              ELSE /\ last'.status = 200
                   /\ \E file \in uploads' \ uploads :
                         /\ uploads' = uploads \cup {file}
                         /\ file.name # audio_file.filename
                         /\ file.content = audio_file.content
                         /\ last'.body.audio_file = file.name
                   /\ episodes' = Append(episodes, last'.body)
      ]_vars

\* C9: register is a lookup step and a separate insert step with no lock
\* between them: a lookup that finds no record of the email goes on to the
\* insert whatever the other request slot is about to insert, and an insert
\* step stores its record and answers with success whatever the store
\* holds by then, in server.py and in views.py alike
C9_RegisterNotExclusive ==
    [][ /\ \A p \in Procs, user_data \in UserCreate :
              ( /\ register_find_one(p, user_data)
                /\ ~Registered(users, user_data.email) )
              => /\ procs'[p].pc = "register:insert_one"
                 /\ procs'[p].user.email = user_data.email
        /\ \A p \in Procs :
              register_insert_one(p)
              => /\ users' = Append(users, procs[p].user)
                 /\ last'.status = 200
        /\ \A p \in Procs :
              register_user_insert_one(p)
              => /\ users_collection' = Append(users_collection, procs[p].doc)
                 /\ last'.status = 201
      ]_vars

\* C9 witness: two register requests for one email have both answered with
\* success and db.users holds two records with that email
C9_Witness ==
    /\ Len(users) = 2
    /\ users[1].email = users[2].email
    /\ users[1].id # users[2].id
    /\ last.op = "register"
    /\ last.status = 200
    /\ \A p \in Procs : procs[p] = Idle

\* C10: every stored episode's podcast_id is the id of a stored show, and
\* that show's creator_id is the id of the user whose create_episode request
\* stored the episode, the steps of the requests interleaved in any order
C10_EpisodeHasOwnedShow ==
    \A n \in 1..Len(episodes) :
       \E show \in Shows :
          /\ show.id = episodes[n].podcast_id
          /\ \E by \in stored_by :
                /\ by.episode = episodes[n].id
                /\ by.user = show.creator_id
                /\ \E user \in Users :
                      user.id = by.user /\ user.role = "podcaster"

\* C10 witness: an episode is stored while the other request slot is in the
\* middle of a request
C10_Witness ==
    /\ episodes # <<>>
    /\ \E p \in Procs :
          procs[p].pc \in {"create_episode:find_one", "create_episode:write"}

\* C11 as claimed: create_access_token called without a ttl makes a token
\* whose expiry is 30 minutes after the instant of issue, and called with a
\* ttl T, zero included, one whose expiry is the instant of issue plus T
\* (the expiry read in whole seconds, as the token carries it)
C11_ExpiryIsIssuePlusTtl ==
    [][ \A data \in [sub : Emails], expires_delta \in ExpiresDeltas :
           issue_token(data, expires_delta) =>
              LET T == IF expires_delta = {}
                       THEN timedelta_minutes(30)
                       ELSE CHOOSE d \in expires_delta : TRUE
              IN  last'.body.encoded_jwt.exp = (now + T) \div TicksPerSecond
      ]_vars

\* text holds q as a substring, letters compared without regard to case
contains(text, q) ==
    \E i \in 0..(Len(text) - Len(q)) :
       \A j \in 1..Len(q) : fold(q[j]) = fold(text[i + j])

\* q holds no character that a regular expression reads as an operator
plain(q) == \A n \in 1..Len(q) : q[n] \notin {".", "(", ")"}

\* The stored shows that hold q in the title, description or category
holding(q) ==
    {n \in 1..Len(podcasts) :
        \/ contains(podcasts[n].title, q)
        \/ contains(podcasts[n].description, q)
        \/ contains(podcasts[n].category, q)}

====
